---- MODULE Spec2Model ----
(***************************************************************************)
(* Model of nuitka/utils/Yaml.py: the package configuration documents      *)
(* (PackageConfigYaml), the load cache (_yaml_cache, parsePackageYaml),    *)
(* the checksum line of a configuration file and the process-wide merged   *)
(* configuration (_package_config, getYamlPackageConfiguration).           *)
(*                                                                         *)
(* Python values are modelled as follows.                                  *)
(*   str / bytes   a sequence of one-character (or one-token) strings      *)
(*   OrderedDict   a sequence of [k, v] pairs with distinct k, in          *)
(*                 insertion order                                         *)
(*   object        an index into heap (identity), 0 is None                *)
(*   exception     the status field of a call's outcome                    *)
(***************************************************************************)
EXTENDS Integers, Sequences, FiniteSets, TLC

(* ----------------------------- bounds ---------------------------------- *)
\* most records in a drawn yaml document
MaxItems == 2
\* most user provided yaml files
MaxUserFiles == 1
\* most calls of the module's functions in one process run
MaxCalls == 2
\* most lines of a drawn file content
MaxLines == 6
\* most lines of the content a drawn content is compared with
MaxTwinLines == 3

(* --------------------------- generic helpers --------------------------- *)
SeqsUpTo(S, n) == UNION {[1..k -> S] : k \in 0..n}

Range(s) == {s[i] : i \in DOMAIN s}

\* "x in d", d.keys(), d[x] and d[x] = v of an OrderedDict
DictHas(d, key) == \E i \in DOMAIN d : d[i].k = key

DictKeys(d) == [i \in DOMAIN d |-> d[i].k]

DictGet(d, key) == d[CHOOSE i \in DOMAIN d : d[i].k = key].v

\* mutant: a new key enters in front of the others
DictSet_front(d, key, value) ==
    IF DictHas(d, key)
    THEN [i \in DOMAIN d |-> IF d[i].k = key THEN [k |-> key, v |-> value] ELSE d[i]]
    ELSE <<[k |-> key, v |-> value]>> \o d

DictSet(d, key, value) ==
    IF DictHas(d, key)
    THEN [i \in DOMAIN d |-> IF d[i].k = key THEN [k |-> key, v |-> value] ELSE d[i]]
    ELSE Append(d, [k |-> key, v |-> value])

\* the dict left by d.pop(key)
DictPop(d, key) == SelectSeq(d, LAMBDA p : p.k # key)

(* --------------------------- module names ------------------------------ *)
Letters == {"a", "b"}

\* the module names checkModuleName accepts among those drawn as inputs
ValidNames == {<<"a">>, <<"b">>, <<"a", "b">>, <<"b", "a">>,
               <<"a", ".", "b">>, <<"b", ".", "a">>}

\* nuitka.utils.ModuleNames.checkModuleName: every dot-separated component
\* of the name is an identifier.
checkModuleName(value) ==
    /\ value # <<>>
    /\ \A i \in DOMAIN value : value[i] \in Letters \cup {"."}
    /\ value[1] # "."
    /\ value[Len(value)] # "."
    /\ \A i \in 1..(Len(value) - 1) : ~(value[i] = "." /\ value[i + 1] = ".")

(* ------------------------ PackageConfigYaml ---------------------------- *)
\* Outcome of a constructor call: status "ok" and the new object's fields,
\* or the exception / fatal exit that ended it.  done counts the records
\* whose pop("module-name") was executed.
InitOutcome(status, err, name, data, done) ==
    [status |-> status, err |-> err, name |-> name, data |-> data, done |-> done]

\* mutant: a module name that looks like a path is not rejected as one
Rejected_no_path_check(item, data) ==
    IF ~DictHas(item, "module-name")
    THEN [status |-> "KeyError", err |-> "module-name"]
    ELSE LET module_name == DictGet(item, "module-name")
         IN  IF module_name = <<>>
             THEN [status |-> "sysexit", err |-> "empty module name"]
             ELSE IF ~checkModuleName(module_name)
             THEN [status |-> "sysexit", err |-> "not valid"]
             ELSE IF DictHas(data, module_name)
             THEN [status |-> "sysexit", err |-> "Duplicate module-name"]
             ELSE [status |-> "ok", err |-> ""]

\* mutant: a repeated module name replaces the earlier entry
Rejected_no_duplicate_check(item, data) ==
    IF ~DictHas(item, "module-name")
    THEN [status |-> "KeyError", err |-> "module-name"]
    ELSE LET module_name == DictGet(item, "module-name")
         IN  IF module_name = <<>>
             THEN [status |-> "sysexit", err |-> "empty module name"]
             ELSE IF "/" \in Range(module_name)
             THEN [status |-> "sysexit", err |-> "looks like a file path"]
             ELSE IF ~checkModuleName(module_name)
             THEN [status |-> "sysexit", err |-> "not valid"]
             ELSE [status |-> "ok", err |-> ""]

\* mutant: the identifier syntax is checked before the path separator
Rejected_syntax_first(item, data) ==
    IF ~DictHas(item, "module-name")
    THEN [status |-> "KeyError", err |-> "module-name"]
    ELSE LET module_name == DictGet(item, "module-name")
         IN  IF module_name = <<>>
             THEN [status |-> "sysexit", err |-> "empty module name"]
             ELSE IF ~checkModuleName(module_name)
             THEN [status |-> "sysexit", err |-> "not valid"]
             ELSE IF "/" \in Range(module_name)
             THEN [status |-> "sysexit", err |-> "looks like a file path"]
             ELSE IF DictHas(data, module_name)
             THEN [status |-> "sysexit", err |-> "Duplicate module-name"]
             ELSE [status |-> "ok", err |-> ""]

\* lines 58-79 for one record: the exception or fatal exit that stops the
\* loop at this record, status "ok" when the record is accepted
Rejected(item, data) ==
    IF ~DictHas(item, "module-name")
    THEN [status |-> "KeyError", err |-> "module-name"]
    ELSE LET module_name == DictGet(item, "module-name")
         IN  IF module_name = <<>>
             THEN [status |-> "sysexit", err |-> "empty module name"]
             ELSE IF "/" \in Range(module_name)
             THEN [status |-> "sysexit", err |-> "looks like a file path"]
             ELSE IF ~checkModuleName(module_name)
             THEN [status |-> "sysexit", err |-> "not valid"]
             ELSE IF DictHas(data, module_name)
             THEN [status |-> "sysexit", err |-> "Duplicate module-name"]
             ELSE [status |-> "ok", err |-> ""]

\* for item in data: ... (the loop of __init__, from record i on)
RECURSIVE PackageConfigYaml_loop(_, _, _, _)
PackageConfigYaml_loop(name, items, i, data) ==
    IF i > Len(items)
    THEN InitOutcome("ok", "", name, data, i - 1)
    ELSE IF Rejected(items[i], data).status # "ok"
    THEN InitOutcome(Rejected(items[i], data).status, Rejected(items[i], data).err,
                     name, data, i)
    ELSE PackageConfigYaml_loop(name, items, i + 1,
                                DictSet(data, DictGet(items[i], "module-name"),
                                        DictPop(items[i], "module-name")))

\* PackageConfigYaml(name, data); yaml is what parseYaml returned:
\* [type |-> "list", value |-> records] or a value of another type.
PackageConfigYaml(name, yaml) ==
    IF yaml.type # "list"
    THEN InitOutcome("AssertionError", "type(data) is list", name, <<>>, 0)
    ELSE PackageConfigYaml_loop(name, yaml.value, 1, <<>>)

\* self.data.get(name) then result.get(section, ()) and the tuple wrapping
EmptyTuple == [type |-> "tuple", value |-> <<>>]

\* mutant: a single mapping is returned as it is
get_unwrapped(self, name, section) ==
    IF DictHas(self.data, name) /\ DictHas(DictGet(self.data, name), section)
    THEN DictGet(DictGet(self.data, name), section)
    ELSE EmptyTuple

get(self, name, section) ==
    LET result == IF DictHas(self.data, name)
                  THEN LET entry == DictGet(self.data, name)
                       IN  IF DictHas(entry, section)
                           THEN DictGet(entry, section)
                           ELSE EmptyTuple
                  ELSE EmptyTuple
    IN  IF result.type = "dict"
        THEN [type |-> "tuple", value |-> <<result>>]
        ELSE result

keys(self) == DictKeys(self.data)

items(self) == self.data

\* Outcome of self.update(other): the data of self afterwards (also when the
\* assertion stopped the loop part-way) and the status.
RECURSIVE update_loop(_, _, _)
update_loop(data, pairs, i) ==
    IF i > Len(pairs)
    THEN [status |-> "ok", err |-> "", data |-> data]
    ELSE IF DictHas(data, pairs[i].k)
         THEN [status |-> "AssertionError", err |-> "key not in self.data", data |-> data]
         ELSE update_loop(DictSet(data, pairs[i].k, pairs[i].v), pairs, i + 1)

\* mutant: no assertion, a key of other replaces the entry of self
RECURSIVE update_overwriting_loop(_, _, _)
update_overwriting_loop(data, pairs, i) ==
    IF i > Len(pairs)
    THEN [status |-> "ok", err |-> "", data |-> data]
    ELSE update_overwriting_loop(DictSet(data, pairs[i].k, pairs[i].v), pairs, i + 1)

update_overwriting(self, other) == update_overwriting_loop(self.data, items(other), 1)

update(self, other) == update_loop(self.data, items(other), 1)

(* ------------------------------ bytes ---------------------------------- *)
\* File content is a sequence of tokens, each standing for the bytes it
\* spells: the two line ends, the separator text, the checksum marker
\* (which holds a blank), a blank, a text byte and the digests.
DigestTokens == <<"h0", "h1", "h2">>

Alphabet == <<"\n", "\r", "---", "# checksum:", " ", "x">> \o DigestTokens

Code(token) == CHOOSE i \in DOMAIN Alphabet : Alphabet[i] = token

Slice(s, from, to) == [i \in 1..(to - from + 1) |-> s[from + i - 1]]

StartsWith(s, prefix) ==
    /\ Len(s) >= Len(prefix)
    /\ \A i \in DOMAIN prefix : s[i] = prefix[i]

\* least index >= from at which pat occurs in s, 0 when it does not
Find(s, pat, from) ==
    LET hits == {i \in from..(Len(s) - Len(pat) + 1) :
                    \A j \in DOMAIN pat : s[i + j - 1] = pat[j]}
    IN  IF hits = {} THEN 0 ELSE CHOOSE i \in hits : \A j \in hits : i <= j

\* bytes.splitlines(): lines end at "\n", "\r" or "\r\n"; the line ends are
\* dropped and a final line end opens no further line.
RECURSIVE splitlines(_)
splitlines(s) ==
    IF s = <<>>
    THEN <<>>
    ELSE LET ends == {i \in DOMAIN s : s[i] \in {"\n", "\r"}}
         IN  IF ends = {}
             THEN <<s>>
             ELSE LET e == CHOOSE i \in ends : \A j \in ends : i <= j
                      next == IF s[e] = "\r" /\ e < Len(s) /\ s[e + 1] = "\n"
                              THEN e + 2
                              ELSE e + 1
                  IN  <<Slice(s, 1, e - 1)>> \o splitlines(Slice(s, next, Len(s)))

\* the bytes a token sequence spells, as far as blanks matter: the marker
\* "# checksum:" is the words "#" and "checksum:" with one blank between
RECURSIVE Spell(_)
Spell(s) ==
    IF s = <<>>
    THEN <<>>
    ELSE (IF Head(s) = "# checksum:" THEN <<"#", " ", "checksum:">> ELSE <<Head(s)>>)
         \o Spell(Tail(s))

\* bytes.split(): the words between runs of whitespace
RECURSIVE Words(_)
Words(s) ==
    IF s = <<>>
    THEN <<>>
    ELSE IF Head(s) \in {" ", "\n", "\r"}
    THEN Words(Tail(s))
    ELSE LET blanks == {i \in DOMAIN s : s[i] \in {" ", "\n", "\r"}}
             e == IF blanks = {}
                  THEN Len(s) + 1
                  ELSE CHOOSE i \in blanks : \A j \in blanks : i <= j
         IN  <<Slice(s, 1, e - 1)>> \o Words(Slice(s, e, Len(s)))

split(s) == Words(Spell(s))

\* b"\n".join(lines)
RECURSIVE join(_, _)
join(sep, lines) ==
    IF lines = <<>> THEN <<>>
    ELSE IF Len(lines) = 1 THEN lines[1]
    ELSE lines[1] \o sep \o join(sep, Tail(lines))

(* ----------------------------- checksum -------------------------------- *)
ChecksumPrefix == <<"# checksum:", " ">>

Separator == <<"\n", "---", "\n">>

\* nuitka.utils.Hashing.getStringHash: a stable hash of the string, as a hex
\* word; here a position-weighted sum over the digests.
RECURSIVE WeightedSum(_, _)
WeightedSum(s, i) ==
    IF i > Len(s) THEN 0 ELSE i * Code(s[i]) + WeightedSum(s, i + 1)

getStringHash(value) ==
    <<DigestTokens[((WeightedSum(value, 1) + Len(value)) % Len(DigestTokens)) + 1]>>

\* yaml_data.split(b"\n---\n", 2)[1], given that the separator occurs
SecondPart(yaml_data) ==
    LET first == Find(yaml_data, Separator, 1)
        from == first + Len(Separator)
        second == Find(yaml_data, Separator, from)
    IN  IF second = 0
        THEN Slice(yaml_data, from, Len(yaml_data))
        ELSE Slice(yaml_data, from, second - 1)

\* mutant: content without the separator is hashed as a whole
_calculateYamlFileChecksum_unchecked(yaml_data) ==
    IF Find(yaml_data, Separator, 1) = 0
    THEN [status |-> "ok", value |-> getStringHash(yaml_data)]
    ELSE [status |-> "ok", value |-> getStringHash(SecondPart(yaml_data))]

\* _calculateYamlFileChecksum: the digest, or ValueError
_calculateYamlFileChecksum(yaml_data) ==
    IF Find(yaml_data, Separator, 1) = 0
    THEN [status |-> "ValueError", value |-> <<>>]
    ELSE [status |-> "ok", value |-> getStringHash(SecondPart(yaml_data))]

\* getYamlFileChecksum: the third word of line 4, None as <<>>
getYamlFileChecksum(yaml_data) ==
    LET lines == splitlines(yaml_data)
    IN  IF Len(lines) > 4 /\ StartsWith(lines[5], ChecksumPrefix)
        THEN IF Len(split(lines[5])) < 3
             THEN [status |-> "IndexError", value |-> <<>>]
             ELSE [status |-> "ok", value |-> split(lines[5])[3]]
        ELSE [status |-> "ok", value |-> <<>>]

\* lines 204-218 of parsePackageYaml: the value of validated, or the
\* exception that the classification raised
Validated(data) ==
    LET lines == splitlines(data)
    IN  IF Len(lines) > 4
        THEN IF StartsWith(lines[5], ChecksumPrefix)
             THEN IF Len(split(lines[5])) < 3
                  THEN [status |-> "IndexError", validated |-> "False"]
                  ELSE LET file_checksum == split(lines[5])[3]
                           computed == _calculateYamlFileChecksum(data)
                       IN  IF computed.status # "ok"
                           THEN [status |-> computed.status, validated |-> "False"]
                           ELSE IF file_checksum # computed.value
                           THEN [status |-> "ok", validated |-> "not matching"]
                           ELSE [status |-> "ok", validated |-> "matching"]
             ELSE [status |-> "ok", validated |-> "not present"]
        ELSE [status |-> "ok", validated |-> "not present"]

(* ------------------------- the process state --------------------------- *)
VARIABLES
    pkg,              \* pkgutil.get_data: cache key -> packaged resource
    user,             \* getUserProvidedYamlFiles() and the files' contents
    _yaml_cache,      \* cache key -> object, 0 when the key is not in it
    _package_config,  \* the singleton object, 0 for None
    heap,             \* the PackageConfigYaml objects, by identity
    log,              \* resource reads, parses, warnings and merges so far
    last,             \* the latest call of the host and its outcome
    returned,         \* history: the first object getYamlPackageConfiguration
                      \* returned, and its keys then
    running,          \* FALSE once sysexit ended the process
    calls             \* calls made by the host

vars == <<pkg, user, _yaml_cache, _package_config, heap, log, last, returned, running,
          calls>>

StandardKey == <<"nuitka.plugins.standard", "standard.nuitka-package.config.yml">>

Stdlib2Key == <<"nuitka.plugins.standard", "stdlib2.nuitka-package.config.yml">>

Stdlib3Key == <<"nuitka.plugins.standard", "stdlib3.nuitka-package.config.yml">>

CommercialKey == <<"nuitka.plugins.commercial", "commercial.nuitka-package.config.yml">>

PackageKeys == {StandardKey, Stdlib2Key, Stdlib3Key, CommercialKey}

\* The mutable globals as one value, threaded through the calls of a handler.
Globals == [cache |-> _yaml_cache, config |-> _package_config, heap |-> heap, log |-> log]

Logged(st, ev, src, what) ==
    [st EXCEPT !.log = Append(@, [ev |-> ev, src |-> src, what |-> what])]

Outcome(st, status, err, ret) == [st |-> st, status |-> status, err |-> err, ret |-> ret]

\* parseYaml(data): the yaml library's result for the content, or its error
parseYaml(resource) == resource.yaml

\* _yaml_cache[key] = PackageConfigYaml(...): a new object enters the heap
Stored(st, key, doc) ==
    [st EXCEPT !.heap = Append(@, [name |-> doc.name, data |-> doc.data]),
               !.cache[key] = Len(st.heap) + 1]

\* A statement followed by the rest of the block: the rest runs on the
\* outcome r of the statement unless the statement raised, and then the
\* exception is the outcome of the block.  Let(x, F) is F at the value of x.
Let(x, F(_)) == CHOOSE v \in {F(r) : r \in {x}} : TRUE

Then(x, F(_)) == CHOOSE v \in {IF r.status # "ok" THEN r ELSE F(r) : r \in {x}} : TRUE

\* mutant: what the constructor had accepted is stored when it fails
ParsedAndStored_partial(st, key, data) ==
    LET yaml == parseYaml(data)
    IN  IF yaml.type = "error"
        THEN Outcome(st, "ParseError", "", 0)
        ELSE Let(PackageConfigYaml(key[2], yaml), LAMBDA doc :
                 IF doc.status # "ok"
                 THEN Outcome(Stored(st, key, doc), doc.status, doc.err, 0)
                 ELSE Outcome(Stored(st, key, doc), "ok", "", Len(st.heap) + 1))

\* lines 223-225, once the content is read and classified
ParsedAndStored(st, key, data) ==
    LET yaml == parseYaml(data)
    IN  IF yaml.type = "error"
        THEN Outcome(st, "ParseError", "", 0)
        ELSE Let(PackageConfigYaml(key[2], yaml), LAMBDA doc :
                 IF doc.status # "ok"
                 THEN Outcome(st, doc.status, doc.err, 0)
                 ELSE Outcome(Stored(st, key, doc), "ok", "", Len(st.heap) + 1))

\* lines 199-223: the key is not in the cache
LoadedPackageYaml(st, key) ==
    Let(Logged(st, "get_data", key[2], ""), LAMBDA st1 :
        IF ~pkg[key].found
        THEN Outcome(st1, "IOError", "Cannot find", 0)
        ELSE Let(Validated(pkg[key].bytes), LAMBDA v :
                 IF v.status # "ok"
                 THEN Outcome(st1, v.status, "", 0)
                 ELSE Let(IF v.validated # "matching"
                          THEN Logged(st1, "warning", key[2], v.validated)
                          ELSE st1,
                          LAMBDA st2 :
                              ParsedAndStored(Logged(st2, "parseYaml", key[2], ""),
                                              key, pkg[key]))))

\* mutant: the cache is never consulted
parsePackageYaml_uncached(st, key) == LoadedPackageYaml(st, key)

parsePackageYaml(st, key) ==
    IF st.cache[key] # 0
    THEN Outcome(st, "ok", "", st.cache[key])
    ELSE LoadedPackageYaml(st, key)

\* _package_config.update(other): the singleton's object is changed in place
Merged(st, other) ==
    Let(update(st.heap[st.config], st.heap[other]), LAMBDA r :
        Outcome([Logged(st, "update", st.heap[other].name, r.status)
                     EXCEPT !.heap[st.config].data = r.data],
                r.status, r.err, st.config))

\* _package_config.update(parsePackageYaml(package_name, filename))
MergedParsed(st, key) ==
    Then(parsePackageYaml(st, key), LAMBDA r : Merged(r.st, r.ret))

\* PackageConfigYaml(name=filename, data=parseYaml(getFileContents(filename)))
\* for the i-th user provided file, as lines 268-271 build it
NewPackageConfigYaml(st, i) ==
    Let(Logged(st, "getFileContents", user[i].name, ""), LAMBDA st1 :
        IF ~user[i].found
        THEN Outcome(st1, "IOError", "No such file", 0)
        ELSE Let(Logged(st1, "parseYaml", user[i].name, ""), LAMBDA st2 :
                 IF parseYaml(user[i]).type = "error"
                 THEN Outcome(st2, "ParseError", "", 0)
                 ELSE Let(PackageConfigYaml(user[i].name, parseYaml(user[i])), LAMBDA doc :
                          IF doc.status # "ok"
                          THEN Outcome(st2, doc.status, doc.err, 0)
                          ELSE Outcome([st2 EXCEPT !.heap = Append(@, [name |-> doc.name,
                                                                       data |-> doc.data])],
                                       "ok", "", Len(st2.heap) + 1))))

\* lines 266-272: the user provided files, from file i on
RECURSIVE MergedUserFiles(_, _)
MergedUserFiles(st, i) ==
    IF i > Len(user)
    THEN Outcome(st, "ok", "", st.config)
    ELSE Then(NewPackageConfigYaml(st, i), LAMBDA r1 :
         Then(Merged(r1.st, r1.ret), LAMBDA r2 : MergedUserFiles(r2.st, i + 1)))

\* mutant: every failure of the commercial source is skipped
MergedCommercial_catch_all(st) ==
    Let(MergedParsed(st, CommercialKey), LAMBDA r :
        IF r.status # "ok" THEN Outcome(r.st, "ok", "", st.config) ELSE r)

\* lines 254-262: the commercial source; only IOError is caught
MergedCommercial(st) ==
    Let(MergedParsed(st, CommercialKey), LAMBDA r :
        IF r.status = "IOError" THEN Outcome(r.st, "ok", "", st.config) ELSE r)

\* lines 237-272: the singleton is None
BuiltPackageConfiguration(st) ==
    Then(parsePackageYaml(st, StandardKey), LAMBDA r1 :
    Then(MergedParsed([r1.st EXCEPT !.config = r1.ret], Stdlib2Key), LAMBDA r2 :
    Then(MergedParsed(r2.st, Stdlib3Key), LAMBDA r3 :
    Then(MergedCommercial(r3.st), LAMBDA r4 :
    MergedUserFiles(r4.st, 1)))))

\* mutant: the singleton is built again by every call
getYamlPackageConfiguration_rebuilt(st) == BuiltPackageConfiguration(st)

getYamlPackageConfiguration(st) ==
    IF st.config # 0
    THEN Outcome(st, "ok", "", st.config)
    ELSE BuiltPackageConfiguration(st)

(* ----------------------- checkOrUpdateChecksum ------------------------- *)
\* the prefix line 176 tests: no blank after the colon
ToolPrefix == <<"# checksum:">>

\* what checkOrUpdateChecksum leaves: the outcome and the content of the file
FileOutcome(st, status, err, file) ==
    [st |-> st, status |-> status, err |-> err, ret |-> 0, file |-> file]

\* lines 178-192, the precondition passed and the digest computed
RewrittenChecksum(st, key, do_update, lines, digest) ==
    LET yaml_data_old == pkg[key].bytes
        yaml_data_new == join(<<"\n">>, [lines EXCEPT ![5] = ChecksumPrefix \o digest])
                             \o <<"\n">>
    IN  IF yaml_data_new # yaml_data_old
        THEN IF do_update
             THEN FileOutcome(Logged(Logged(st, "write", key[2], ""),
                                     "info", key[2], "OK, updated checksum."),
                              "ok", "", yaml_data_new)
             ELSE FileOutcome(st, "sysexit", "Error, checksum does not match",
                              yaml_data_old)
        ELSE FileOutcome(Logged(st, "info", key[2], "OK, checksum valid."),
                         "ok", "", yaml_data_old)

\* mutant: a file of five lines passes whatever its line 4 is
checkOrUpdateChecksum_any_line(st, key, do_update) ==
    Let(Logged(st, "getFileContents", key[2], ""), LAMBDA st1 :
        IF ~pkg[key].found
        THEN FileOutcome(st1, "IOError", "No such file", pkg[key].bytes)
        ELSE Let(splitlines(pkg[key].bytes), LAMBDA lines :
                 IF Len(lines) < 5
                 THEN FileOutcome(st1, "sysexit",
                                  "Make sure the file is autoformatted first.",
                                  pkg[key].bytes)
                 ELSE Let(_calculateYamlFileChecksum(pkg[key].bytes), LAMBDA digest :
                          IF digest.status # "ok"
                          THEN FileOutcome(st1, digest.status, "", pkg[key].bytes)
                          ELSE RewrittenChecksum(st1, key, do_update, lines, digest.value))))

\* checkOrUpdateChecksum(filename, update, logger) on the file of a key;
\* do_update is its parameter update
checkOrUpdateChecksum(st, key, do_update) ==
    Let(Logged(st, "getFileContents", key[2], ""), LAMBDA st1 :
        IF ~pkg[key].found
        THEN FileOutcome(st1, "IOError", "No such file", pkg[key].bytes)
        ELSE Let(splitlines(pkg[key].bytes), LAMBDA lines :
                 IF Len(lines) < 5 \/ ~StartsWith(lines[5], ToolPrefix)
                 THEN FileOutcome(st1, "sysexit",
                                  "Make sure the file is autoformatted first.",
                                  pkg[key].bytes)
                 ELSE Let(_calculateYamlFileChecksum(pkg[key].bytes), LAMBDA digest :
                          IF digest.status # "ok"
                          THEN FileOutcome(st1, digest.status, "", pkg[key].bytes)
                          ELSE RewrittenChecksum(st1, key, do_update, lines, digest.value))))

(* ------------------------------ calls ---------------------------------- *)
\* The host's call returns or raises; what the call did to the globals stays.
Finish(op, arg, pre, r) ==
    /\ _yaml_cache' = r.st.cache
    /\ _package_config' = r.st.config
    /\ heap' = r.st.heap
    /\ log' = r.st.log
    /\ last' = [op |-> op, arg |-> arg, pre |-> pre, status |-> r.status,
                err |-> r.err, ret |-> r.ret, seen |-> returned.obj,
                events |-> SubSeq(r.st.log, Len(log) + 1, Len(r.st.log))]
    /\ returned' = IF op = "getYamlPackageConfiguration" /\ r.status = "ok"
                      /\ returned.obj = 0
                   THEN [obj |-> r.ret, keys |-> keys(r.st.heap[r.ret])]
                   ELSE returned
    /\ running' = (r.status # "sysexit")
    /\ calls' = calls + 1
    /\ UNCHANGED <<pkg, user>>

CallGetYamlPackageConfiguration ==
    /\ running
    /\ calls < MaxCalls
    /\ \E r \in {getYamlPackageConfiguration(Globals)} :
          Finish("getYamlPackageConfiguration", <<>>, _package_config, r)

CallParsePackageYaml ==
    /\ running
    /\ calls < MaxCalls
    /\ \E key \in PackageKeys :
          \E r \in {parsePackageYaml(Globals, key)} :
              Finish("parsePackageYaml", key, _yaml_cache[key], r)

CallPackageConfigYaml ==
    /\ running
    /\ calls < MaxCalls
    /\ \E i \in DOMAIN user :
          \E r \in {NewPackageConfigYaml(Globals, i)} :
              Finish("PackageConfigYaml", <<user[i].name>>, 0, r)

Next ==
    \/ CallGetYamlPackageConfiguration
    \/ CallParsePackageYaml
    \/ CallPackageConfigYaml

(* ------------------------------ inputs --------------------------------- *)
Dict(m) == [type |-> "dict", value |-> m]

List(ms) == [type |-> "list", value |-> ms]

\* one record of a yaml document: module-name first, then its sections
Item(module_name, sections) == <<[k |-> "module-name", v |-> module_name]>> \o sections

YamlList(records) == [type |-> "list", value |-> records]

YamlError == [type |-> "error", value |-> <<>>]

YamlDict == [type |-> "dict", value |-> <<>>]

\* a record list with one section-less record per name
Named(names) == YamlList([i \in DOMAIN names |-> Item(names[i], <<>>)])

\* a file of five header lines, the fifth being the checksum line, then the
\* separator and the body
FileBytes(digest, body) ==
    <<"x", "\n", "x", "\n", "x", "\n", "x", "\n", "# checksum:", " ">> \o digest
        \o <<"\n", "---", "\n">> \o body

Body == <<"x", "\n">>

GoodBytes == FileBytes(getStringHash(Body), Body)

StaleBytes == FileBytes(getStringHash(<<>>), Body)

PlainBytes == <<"---", "\n">> \o Body

NotFound == [found |-> FALSE, bytes |-> <<>>, yaml |-> YamlError]

Resource(bytes, yaml) == [found |-> TRUE, bytes |-> bytes, yaml |-> yaml]

UserName(i) == <<"user1.yml", "user2.yml", "user3.yml", "user4.yml">>[i]

UserFile(i, resource) ==
    [name |-> UserName(i), found |-> resource.found, bytes |-> resource.bytes,
     yaml |-> resource.yaml]

UserFiles(choices) ==
    {[i \in DOMAIN rs |-> UserFile(i, rs[i])] : rs \in SeqsUpTo(choices, MaxUserFiles)}

InitGlobals ==
    /\ _yaml_cache = [key \in PackageKeys |-> 0]
    /\ _package_config = 0
    /\ heap = <<>>
    /\ log = <<>>
    /\ last = [op |-> "", arg |-> <<>>, pre |-> 0, status |-> "", err |-> "", ret |-> 0,
               seen |-> 0, events |-> <<>>]
    /\ returned = [obj |-> 0, keys |-> <<>>]
    /\ running = TRUE
    /\ calls = 0

\* The sources a run can meet: each one present and well formed, absent, or
\* sharing a module name with an earlier one.
SourceChoices(key) ==
    IF key = StandardKey
    THEN {NotFound, Resource(GoodBytes, Named(<<<<"a">>>>)),
          Resource(StaleBytes, Named(<<<<"a">>>>))}
    ELSE IF key = Stdlib2Key
    THEN {NotFound, Resource(GoodBytes, Named(<<<<"b">>>>)),
          Resource(PlainBytes, Named(<<<<"a">>>>))}
    ELSE IF key = Stdlib3Key
    THEN {NotFound, Resource(GoodBytes, Named(<<<<"a", ".", "b">>>>)),
          Resource(GoodBytes, Named(<<<<"a", "b">>, <<"a">>>>))}
    ELSE {NotFound, Resource(GoodBytes, Named(<<<<"b", ".", "a">>>>)),
          Resource(GoodBytes, Named(<<<<"b", ".", "a">>, <<"b">>>>)),
          Resource(GoodBytes, Named(<<<<"a", "/", "b">>>>))}

UserChoices ==
    {Resource(PlainBytes, Named(<<<<"b", "a">>>>)),
     Resource(PlainBytes, Named(<<<<"a">>>>)),
     Resource(PlainBytes, Named(<<<<"a", "/", "b">>>>))}

Init ==
    /\ pkg \in {f \in [PackageKeys -> UNION {SourceChoices(k) : k \in PackageKeys}] :
                   \A k \in PackageKeys : f[k] \in SourceChoices(k)}
    /\ user \in UserFiles(UserChoices)
    /\ InitGlobals

Spec == Init /\ [][Next]_vars

(* ------------------- record lists as inputs ---------------------------- *)
Sections ==
    <<[k |-> "data-files", v |-> Dict("m1")],
      [k |-> "anti-bloat", v |-> List(<<"m1", "m2">>)]>>

\* Records with each kind of module name, one with sections, and two with
\* no module-name key.
InputItems ==
    {Item(n, <<>>) : n \in {<<"a">>, <<"a", ".", "b">>, <<>>, <<"a", "/", "b">>,
                            <<"a", ".">>}}
        \cup {Item(<<"b">>, Sections), Sections, <<>>}

InputYamls ==
    {YamlList(records) : records \in SeqsUpTo(InputItems, MaxItems)}
        \cup {YamlError, YamlDict}

GoodSources ==
    (StandardKey :> Resource(GoodBytes, Named(<<<<"b", "a">>>>)))
        @@ (Stdlib2Key :> Resource(GoodBytes, Named(<<<<"a", "b">>>>)))
        @@ (Stdlib3Key :> Resource(GoodBytes, Named(<<<<"b", ".", "a">>>>)))
        @@ (CommercialKey :> NotFound)

\* One drawn record list, shipped as the standard source or given as the
\* user provided file; the other sources are present and well formed.
InitRecords ==
    /\ \E yaml \in InputYamls :
          \/ /\ pkg = [GoodSources EXCEPT ![StandardKey] = Resource(GoodBytes, yaml)]
             /\ user = <<UserFile(1, Resource(PlainBytes, Named(<<<<"b", "b">>>>)))>>
          \/ /\ pkg = GoodSources
             /\ user = <<UserFile(1, Resource(PlainBytes, yaml))>>
    /\ InitGlobals

SpecRecords == InitRecords /\ [][Next]_vars

\* the yaml whose records the latest call gave to PackageConfigYaml
LastYaml ==
    IF last.op = "PackageConfigYaml" THEN user[1].yaml ELSE pkg[last.arg].yaml

\* the latest call ran the constructor on a record list
Constructed ==
    /\ last.op \in {"PackageConfigYaml", "parsePackageYaml"}
    /\ \E i \in DOMAIN last.events : last.events[i].ev = "parseYaml"
    /\ LastYaml.type = "list"

HasName(item) == \E i \in DOMAIN item : item[i].k = "module-name"

NameOf(item) == item[CHOOSE i \in DOMAIN item : item[i].k = "module-name"].v

WellFormed(name) == name # <<>> /\ "/" \notin Range(name) /\ checkModuleName(name)

\* the records before the j-th all pass every check
AcceptedBefore(records, j) ==
    \A i \in 1..(j - 1) :
        /\ HasName(records[i])
        /\ WellFormed(NameOf(records[i]))
        /\ \A h \in 1..(i - 1) : NameOf(records[h]) # NameOf(records[i])

\* the same module name occurs in two records
SameNameTwice(records) ==
    \E i, j \in DOMAIN records :
        i < j /\ HasName(records[i]) /\ HasName(records[j])
              /\ NameOf(records[i]) = NameOf(records[j])

\* the first record to fail a check repeats a well formed earlier name
FirstRejectedIsDuplicate(records) ==
    \E j \in DOMAIN records :
        /\ AcceptedBefore(records, j)
        /\ HasName(records[j])
        /\ WellFormed(NameOf(records[j]))
        /\ \E h \in 1..(j - 1) : NameOf(records[h]) = NameOf(records[j])

FirstRejectedIsPath(records) ==
    \E j \in DOMAIN records :
        /\ AcceptedBefore(records, j)
        /\ HasName(records[j])
        /\ NameOf(records[j]) = <<"a", "/", "b">>

FirstRejectedHasNoName(records) ==
    \E j \in DOMAIN records : AcceptedBefore(records, j) /\ ~HasName(records[j])

(* --------------------- documents as inputs ----------------------------- *)
DocItems ==
    {Item(n, secs) : n \in {<<"a">>, <<"b">>},
                     secs \in {<<Sections[1]>>,
                               <<[k |-> "data-files", v |-> List(<<"m2">>)],
                                 [k |-> "anti-bloat", v |-> List(<<>>)]>>}}

\* the documents PackageConfigYaml builds from the drawn record lists
Docs(name) ==
    {[name |-> name, data |-> d.data] :
        d \in {c \in {PackageConfigYaml(name, YamlList(records)) :
                         records \in SeqsUpTo(DocItems, MaxItems)} : c.status = "ok"}}

InitDocs ==
    /\ pkg = GoodSources
    /\ user = <<>>
    /\ _yaml_cache = [key \in PackageKeys |-> 0]
    /\ _package_config = 0
    /\ \E A \in Docs("A.yml"), B \in Docs("B.yml") : heap = <<A, B>>
    /\ log = <<>>
    /\ last = [op |-> ""]
    /\ returned = [obj |-> 0, keys |-> <<>>]
    /\ running = TRUE
    /\ calls = 0

\* self.get(name, section) for a document of the heap
CallGet ==
    \E self \in DOMAIN heap, name \in ValidNames, section \in {"data-files", "anti-bloat", "options"} :
        /\ last' = [op |-> "get", self |-> heap[self], name |-> name, section |-> section,
                    ret |-> get(heap[self], name, section)]
        /\ UNCHANGED <<pkg, user, _yaml_cache, _package_config, heap, log, returned,
                       running, calls>>

\* self.update(other) for two documents of the heap
CallUpdate ==
    \E self \in DOMAIN heap, other \in DOMAIN heap :
        \E r \in {update(heap[self], heap[other])} :
            /\ heap' = [heap EXCEPT ![self].data = r.data]
            /\ last' = [op |-> "update", self |-> heap[self], other |-> heap[other],
                        status |-> r.status, after |-> r.data]
            /\ UNCHANGED <<pkg, user, _yaml_cache, _package_config, log, returned,
                           running, calls>>

NextDocs == CallGet \/ CallUpdate

SpecDocs == InitDocs /\ [][NextDocs]_vars

(* ------------------------ contents as inputs --------------------------- *)
\* the texts drawn for the i-th line (counted from 1): the fifth is the
\* checksum line, the third and fourth are plain header lines, every other
\* one is plain or a "---" line
LineChoices(i) ==
    IF i = 5
    THEN {<<"# checksum:", " ", "h0">>, <<"# checksum:", " ", "h1">>,
          <<"# checksum:", " ", "h2">>, <<"# checksum:", " ">>, <<"# checksum:">>,
          <<"# checksum:", "h0">>, <<"x">>}
    ELSE IF i \in {3, 4}
    THEN {<<"x">>}
    ELSE {<<"x">>, <<"---">>}

RECURSIVE LineSeqs(_)
LineSeqs(n) ==
    IF n = 0
    THEN {<<>>}
    ELSE {Append(ls, l) : ls \in LineSeqs(n - 1), l \in LineChoices(n)}

\* contents of up to MaxLines lines, with and without a final line end
Contents ==
    UNION {{join(<<"\n">>, ls) \o end : ls \in LineSeqs(n), end \in {<<>>, <<"\n">>}} :
              n \in 0..MaxLines}

InitContents ==
    /\ \E bytes \in Contents :
          pkg = [GoodSources EXCEPT ![StandardKey] =
                                        Resource(bytes, Named(<<<<"b", "a">>>>))]
    /\ user = <<UserFile(1, Resource(PlainBytes, Named(<<<<"b", "b">>>>)))>>
    /\ InitGlobals

SpecContents == InitContents /\ [][Next]_vars

(* -------------------------- files as inputs ---------------------------- *)
\* a run of the maintenance tool on the file of a key
CallCheckOrUpdateChecksum ==
    /\ running
    /\ calls < MaxCalls
    /\ \E key \in PackageKeys, do_update \in BOOLEAN :
          \E r \in {checkOrUpdateChecksum(Globals, key, do_update)} :
              /\ pkg' = [pkg EXCEPT ![key].bytes = r.file]
              /\ log' = r.st.log
              /\ last' = [op |-> "checkOrUpdateChecksum", arg |-> key, pre |-> 0,
                          status |-> r.status, err |-> r.err, ret |-> 0, seen |-> 0,
                          events |-> SubSeq(r.st.log, Len(log) + 1, Len(r.st.log)),
                          update |-> do_update, before |-> pkg[key].bytes]
              /\ running' = (r.status # "sysexit")
              /\ calls' = calls + 1
              /\ UNCHANGED <<user, _yaml_cache, _package_config, heap, returned>>

\* _calculateYamlFileChecksum on the content of a resource
CallCalculateYamlFileChecksum ==
    /\ running
    /\ calls < MaxCalls
    /\ \E key \in {k \in PackageKeys : pkg[k].found} :
          \E r \in {_calculateYamlFileChecksum(pkg[key].bytes)} :
              /\ log' = Append(log, [ev |-> "_calculateYamlFileChecksum", src |-> key[2],
                                     what |-> [data |-> pkg[key].bytes,
                                               status |-> r.status,
                                               value |-> r.value]])
              /\ last' = [op |-> "_calculateYamlFileChecksum", arg |-> key, pre |-> 0,
                          status |-> r.status, err |-> "", ret |-> r.value, seen |-> 0,
                          events |-> <<>>]
              /\ calls' = calls + 1
              /\ UNCHANGED <<pkg, user, _yaml_cache, _package_config, heap, returned,
                             running>>

InitFiles ==
    /\ \E bytes \in Contents :
          pkg = [key \in PackageKeys |->
                    IF key = StandardKey
                    THEN Resource(bytes, Named(<<<<"b", "a">>>>))
                    ELSE NotFound]
    /\ user = <<>>
    /\ InitGlobals

NextFiles ==
    \/ CallCheckOrUpdateChecksum
    \/ CallCalculateYamlFileChecksum
    \/ CallParsePackageYaml

SpecFiles == InitFiles /\ [][NextFiles]_vars

(* ----------------------- two contents as inputs ------------------------ *)
TwinContents ==
    UNION {{join(<<"\n">>, ls) \o end : ls \in LineSeqs(n), end \in {<<>>, <<"\n">>}} :
              n \in 0..MaxTwinLines}

InitChecksums ==
    /\ \E bytes \in Contents, twin \in TwinContents :
          pkg = [key \in PackageKeys |->
                    IF key = StandardKey THEN Resource(bytes, Named(<<<<"b", "a">>>>))
                    ELSE IF key = Stdlib2Key THEN Resource(twin, Named(<<<<"b">>>>))
                    ELSE NotFound]
    /\ user = <<>>
    /\ InitGlobals

NextChecksums == CallCalculateYamlFileChecksum

SpecChecksums == InitChecksums /\ [][NextChecksums]_vars

(* ------------------------ failing loads as inputs ----------------------- *)
\* five lines with a checksum line and no separator
MalformedBytes ==
    <<"x", "\n", "x", "\n", "x", "\n", "x", "\n", "# checksum:", " ", "h0", "\n">>

\* a resource that loads, and one for each way a load fails
LoadChoices(name) ==
    {Resource(GoodBytes, Named(<<name>>)),
     NotFound,
     Resource(MalformedBytes, Named(<<name>>)),
     Resource(GoodBytes, YamlError),
     Resource(GoodBytes, Named(<<name, <<"a", "/", "b">>>>)),
     Resource(GoodBytes, Named(<<name, name>>))}

InitLoads ==
    /\ \E standard \in LoadChoices(<<"a">>), stdlib2 \in LoadChoices(<<"b">>),
          stdlib3 \in LoadChoices(<<"a", "b">>), commercial \in LoadChoices(<<"b", "a">>) :
          pkg = (StandardKey :> standard) @@ (Stdlib2Key :> stdlib2)
                    @@ (Stdlib3Key :> stdlib3) @@ (CommercialKey :> commercial)
    /\ user = <<>>
    /\ InitGlobals

NextLoads ==
    \/ CallParsePackageYaml
    \/ CallGetYamlPackageConfiguration

SpecLoads == InitLoads /\ [][NextLoads]_vars

(* ------------------------------ claims --------------------------------- *)
\* the module names a resource's records give, in order
SourceNames(resource) ==
    [i \in DOMAIN resource.yaml.value |-> DictGet(resource.yaml.value[i], "module-name")]

Count(ev, src) == Cardinality({i \in DOMAIN log : log[i].ev = ev /\ log[i].src = src})

Built == last.op = "getYamlPackageConfiguration" /\ last.status = "ok"

\* C1: once getYamlPackageConfiguration has built the aggregate, every
\* document in the load cache still has exactly the module names of its own
\* source, the standard one included.
C1_SourceDocumentsUnchanged ==
    Built =>
        \A key \in PackageKeys :
            _yaml_cache[key] # 0 => keys(heap[_yaml_cache[key]]) = SourceNames(pkg[key])

\* C2: an aggregate that getYamlPackageConfiguration returns holds the module
\* names of the three mandatory sources and of every user provided file.
C2_AllOrNothing ==
    Built =>
        /\ \A key \in {StandardKey, Stdlib2Key, Stdlib3Key} :
              /\ pkg[key].found
              /\ Range(SourceNames(pkg[key])) \subseteq Range(keys(heap[last.ret]))
        /\ \A i \in DOMAIN user :
              /\ user[i].found
              /\ Range(SourceNames(user[i])) \subseteq Range(keys(heap[last.ret]))

\* C4: a call of getYamlPackageConfiguration made after one has returned
\* returns the same object, with the keys it had then, and reads, parses,
\* merges and warns nothing; between the calls the object keeps its keys.
C4_SingletonReturned ==
    /\ returned.obj # 0 => keys(heap[returned.obj]) = returned.keys
    /\ (last.op = "getYamlPackageConfiguration" /\ last.seen # 0) =>
          /\ last.status = "ok"
          /\ last.ret = last.seen
          /\ last.ret = returned.obj
          /\ last.events = <<>>

C4_Witness ==
    /\ last.op = "getYamlPackageConfiguration"
    /\ last.seen # 0
    /\ Len(returned.keys) >= 3

\* C5: a key that is in the load cache was read and parsed once; a call for
\* a key already in the cache returns the cached object and reads,
\* classifies, warns and parses nothing; an entry of the cache never changes.
C5_CacheHit ==
    /\ \A key \in PackageKeys :
          _yaml_cache[key] # 0 =>
              Count("get_data", key[2]) = 1 /\ Count("parseYaml", key[2]) = 1
    /\ (last.op = "parsePackageYaml" /\ last.pre # 0) =>
          /\ last.status = "ok"
          /\ last.ret = last.pre
          /\ _yaml_cache[last.arg] = last.pre
          /\ last.events = <<>>

C5_CacheStable ==
    [][\A key \in PackageKeys :
          _yaml_cache[key] # 0 => _yaml_cache'[key] = _yaml_cache[key]]_vars

C5_ParsedOnce == []C5_CacheHit /\ C5_CacheStable

C5_Witness ==
    /\ last.op = "parsePackageYaml"
    /\ last.pre # 0
    /\ \E i \in DOMAIN log : log[i].ev = "warning" /\ log[i].src = last.arg[2]

\* C6: the keys of every PackageConfigYaml object, the aggregate included,
\* are non-empty, hold no "/" and pass checkModuleName; a record named "a/b"
\* makes the construction that reaches it exit with the file path error, and
\* no record list holding one yields a document.
C6_ModuleNamesValid ==
    /\ \A id \in DOMAIN heap :
          \A i \in DOMAIN heap[id].data : WellFormed(heap[id].data[i].k)
    /\ Constructed =>
          /\ (\E i \in DOMAIN LastYaml.value :
                 HasName(LastYaml.value[i])
                     /\ NameOf(LastYaml.value[i]) = <<"a", "/", "b">>)
                => last.status # "ok"
          /\ FirstRejectedIsPath(LastYaml.value)
                => /\ last.status = "sysexit"
                   /\ last.err = "looks like a file path"
                   /\ ~running

C6_Witness ==
    /\ Constructed
    /\ FirstRejectedIsPath(LastYaml.value)
    /\ Len(LastYaml.value) = 2
    /\ last.op = "PackageConfigYaml"

\* C7 as stated: a record list in which the same module name occurs in two
\* records exits with the duplicate error.
C7_DuplicateAlwaysReported ==
    (Constructed /\ SameNameTwice(LastYaml.value)
        /\ \A i \in DOMAIN LastYaml.value :
               HasName(LastYaml.value[i]) /\ NameOf(LastYaml.value[i]) # <<>>) =>
        last.status = "sysexit" /\ last.err = "Duplicate module-name"

\* C7 as amended: such a list never yields a document and nothing is stored
\* in the cache for its key; the error is the duplicate error when the
\* repeated record is the first one to fail a check.
C7_DuplicateRejected ==
    (Constructed /\ SameNameTwice(LastYaml.value)) =>
        /\ last.status # "ok"
        /\ last.ret = 0
        /\ last.op = "parsePackageYaml" => _yaml_cache[last.arg] = 0
        /\ \A id \in DOMAIN heap : heap[id].name # last.events[Len(last.events)].src
        /\ FirstRejectedIsDuplicate(LastYaml.value)
              => /\ last.status = "sysexit"
                 /\ last.err = "Duplicate module-name"
                 /\ ~running

C7_Witness ==
    /\ Constructed
    /\ FirstRejectedIsDuplicate(LastYaml.value)
    /\ last.op = "parsePackageYaml"
    /\ last.err = "Duplicate module-name"

\* C8: a record with no module-name key, reached by the constructor, ends
\* the load with the empty module name exit.
C8_MissingNameIsEmptyName ==
    (Constructed /\ FirstRejectedHasNoName(LastYaml.value)) =>
        last.status = "sysexit" /\ last.err = "empty module name"

\* C3: self.update(other) on documents with disjoint keys succeeds and
\* leaves self with its pairs followed by those of other; on documents that
\* share a key it fails the assertion and every shared key keeps the entry
\* self had.
C3_Update ==
    last.op = "update" =>
        LET before == last.self.data
            given == last.other.data
            shared == Range(DictKeys(before)) \cap Range(DictKeys(given))
        IN  /\ shared = {} =>
                  /\ last.status = "ok"
                  /\ Range(DictKeys(last.after))
                         = Range(DictKeys(before)) \cup Range(DictKeys(given))
                  /\ last.after = before \o given
                  /\ \A k \in Range(DictKeys(given)) :
                         DictGet(last.after, k) = DictGet(given, k)
            /\ shared # {} =>
                  /\ last.status = "AssertionError"
                  /\ \A k \in shared : DictGet(last.after, k) = DictGet(before, k)

C3_Witness ==
    /\ last.op = "update"
    /\ last.status = "AssertionError"
    /\ Len(last.after) > Len(last.self.data)
    /\ \E k \in Range(DictKeys(last.self.data)) \cap Range(DictKeys(last.other.data)) :
          DictGet(last.self.data, k) # DictGet(last.other.data, k)

\* what the latest get returned, by the case of its arguments
C9_Returned ==
    last.op = "get" =>
        LET data == last.self.data
            known == DictHas(data, last.name)
                         /\ DictHas(DictGet(data, last.name), last.section)
            payload == DictGet(DictGet(data, last.name), last.section)
        IN  /\ last.ret.type \in {"tuple", "list"}
            /\ ~known => last.ret = EmptyTuple
            /\ (known /\ payload.type = "dict")
                  => last.ret = [type |-> "tuple", value |-> <<payload>>]
            /\ (known /\ payload.type = "list") => last.ret = payload

\* C9: get returns a sequence: the empty one for an unknown module name or
\* an absent section, the mapping in a one-element sequence, and a payload
\* that is a sequence as it is; and a get leaves every document as it was.
C9_Get == []C9_Returned /\ [][CallGet => heap' = heap]_vars

C9_Witness ==
    /\ last.op = "get"
    /\ last.ret.type = "tuple"
    /\ Len(last.ret.value) = 1
    /\ last.ret.value[1] = Dict("m1")

\* the warnings of the latest call
LastWarnings == SelectSeq(last.events, LAMBDA e : e.ev = "warning")

\* the latest call read the resource of its key and the content holds the
\* separator
LoadedWithSeparator ==
    /\ last.op = "parsePackageYaml"
    /\ last.pre = 0
    /\ pkg[last.arg].found
    /\ Find(pkg[last.arg].bytes, Separator, 1) # 0

\* C10: such a load of a well formed document returns and caches the
\* document whatever the checksum line says, warns once unless the checksum
\* matches, and warns "not present" exactly when line 4 is missing or does
\* not start with the marker.
C10_ChecksumNeverAborts ==
    LoadedWithSeparator =>
        LET lines == splitlines(pkg[last.arg].bytes)
            marked == Len(lines) > 4 /\ StartsWith(lines[5], ChecksumPrefix)
        IN  /\ last.status = "ok"
            /\ last.ret # 0
            /\ _yaml_cache[last.arg] = last.ret
            /\ Len(LastWarnings) <= 1
            /\ \A i \in DOMAIN LastWarnings :
                   LastWarnings[i].what \in {"not matching", "not present"}
            /\ ~marked <=> (LastWarnings # <<>> /\ LastWarnings[1].what = "not present")
            /\ (LastWarnings = <<>>)
                   <=> (marked /\ Len(split(lines[5])) > 2 /\ split(lines[5])[3]
                           = _calculateYamlFileChecksum(pkg[last.arg].bytes).value)

\* not a claim: C10 with the contents left out whose checksum line ends
\* after the marker
C10_ExceptEmptyDigest ==
    (LoadedWithSeparator
        /\ ~(Len(splitlines(pkg[last.arg].bytes)) > 4
                /\ splitlines(pkg[last.arg].bytes)[5] = <<"# checksum:", " ">>))
        => C10_ChecksumNeverAborts

\* the latest call ran the maintenance tool on a file that exists
Maintained == last.op = "checkOrUpdateChecksum" /\ pkg[last.arg].found

\* the events of a kind among those of the latest call
LastEvents(ev) == SelectSeq(last.events, LAMBDA e : e.ev = ev)

\* the index at which line n of s begins (n counted from 1), 0 when s has
\* fewer lines; a line begins at the start and after each line end
LineStart(s, n) ==
    LET starts == {1} \cup {i + 1 : i \in {j \in 1..(Len(s) - 1) :
                                      \/ s[j] = "\n"
                                      \/ s[j] = "\r" /\ s[j + 1] # "\n"}}
        nth == {i \in starts : Cardinality({j \in starts : j < i}) = n - 1}
    IN  IF s = <<>> \/ nth = {} THEN 0 ELSE CHOOSE i \in nth : TRUE

\* s with the text of its line n replaced and every other byte kept
ReplacedLine(s, n, line) ==
    LET from == LineStart(s, n)
        ends == {i \in from..Len(s) : s[i] \in {"\n", "\r"}}
        to == IF ends = {} THEN Len(s) + 1 ELSE CHOOSE i \in ends : \A j \in ends : i <= j
    IN  Slice(s, 1, from - 1) \o line \o Slice(s, to, Len(s))

\* line 4 carries a checksum that is not the digest of the content
Stale(data) == Validated(data) = [status |-> "ok", validated |-> "not matching"]

\* C12: the tool on a file with a stale checksum: with update, the file
\* afterwards is the old one with the text of line 4 replaced by the marker
\* and the fresh digest, every other byte (line ends, final line end) kept;
\* without update, the file is untouched and the mismatch error is fatal.
C12_OnlyLine4Rewritten ==
    (Maintained /\ Stale(last.before)) =>
        IF last.update
        THEN /\ last.status = "ok"
             /\ pkg[last.arg].bytes
                    = ReplacedLine(last.before, 5,
                                   ChecksumPrefix
                                       \o _calculateYamlFileChecksum(last.before).value)
        ELSE /\ last.status = "sysexit"
             /\ last.err = "Error, checksum does not match"
             /\ pkg[last.arg].bytes = last.before
             /\ ~running

\* not a claim: C12 for the files that end with a line end
C12_ExceptNoFinalLineEnd ==
    (Maintained /\ last.before # <<>> /\ last.before[Len(last.before)] = "\n")
        => C12_OnlyLine4Rewritten

\* the tool left the file alone and stopped the process with the
\* 'autoformatted first' error
AbortedUnformatted ==
    /\ last.status = "sysexit"
    /\ last.err = "Make sure the file is autoformatted first."
    /\ pkg[last.arg].bytes = last.before
    /\ LastEvents("write") = <<>>
    /\ LastEvents("info") = <<>>
    /\ ~running

\* C16 as stated, the marker being the one the loader tests for: a file of
\* fewer than 5 lines, or whose line 4 does not start with "# checksum: ",
\* makes the tool abort with the 'autoformatted first' error.
C16_AbortsWithoutMarker ==
    (Maintained /\ (Len(splitlines(last.before)) < 5
                       \/ ~StartsWith(splitlines(last.before)[5], ChecksumPrefix)))
        => AbortedUnformatted

\* C16 as amended: the same for a file of fewer than 5 lines, or whose
\* line 4 does not start with "# checksum:" (no blank), whatever the flag.
C16_AbortsWithoutToolMarker ==
    (Maintained /\ (Len(splitlines(last.before)) < 5
                       \/ ~StartsWith(splitlines(last.before)[5], ToolPrefix)))
        => AbortedUnformatted

C16_Witness ==
    /\ Maintained
    /\ last.update
    /\ Len(splitlines(last.before)) > 5
    /\ splitlines(last.before)[5] = <<"x">>
    /\ Find(last.before, Separator, 1) # 0
    /\ AbortedUnformatted

\* the latest run of the tool with update completed
Updated == Maintained /\ last.update /\ last.status = "ok"

\* C18: after a completed run with update, a further run on the file
\* reports 'checksum valid' and leaves the file as it is, and a load of the
\* file logs no checksum warning.
C18_Idempotent ==
    [][/\ (Updated /\ last'.op = "checkOrUpdateChecksum" /\ last'.arg = last.arg)
              => /\ last'.status = "ok"
                 /\ pkg' = pkg
                 /\ \E i \in DOMAIN last'.events :
                        /\ last'.events[i].ev = "info"
                        /\ last'.events[i].what = "OK, checksum valid."
                 /\ \A i \in DOMAIN last'.events : last'.events[i].ev # "write"
       /\ (Updated /\ last'.op = "parsePackageYaml" /\ last'.arg = last.arg)
              => /\ last'.status = "ok"
                 /\ \A i \in DOMAIN last'.events : last'.events[i].ev # "warning"]_vars

\* the content of the latest call's resource lacks the separator
NoSeparator(data) == Find(data, Separator, 1) = 0

\* C14: for content without the separator the computation raises
\* ValueError; a load of such content whose line 4 carries the marker aborts
\* with no warning and nothing cached; and the tool on such a file aborts
\* and writes nothing.
C14_MalformedAborts ==
    /\ (last.op = "_calculateYamlFileChecksum" /\ NoSeparator(pkg[last.arg].bytes))
          => last.status = "ValueError"
    /\ (/\ last.op = "parsePackageYaml"
        /\ last.pre = 0
        /\ pkg[last.arg].found
        /\ NoSeparator(pkg[last.arg].bytes)
        /\ Len(splitlines(pkg[last.arg].bytes)) > 4
        /\ StartsWith(splitlines(pkg[last.arg].bytes)[5], ChecksumPrefix))
          => /\ last.status \in {"ValueError", "IndexError"}
             /\ Len(split(splitlines(pkg[last.arg].bytes)[5])) > 2
                   => last.status = "ValueError"
             /\ LastWarnings = <<>>
             /\ last.ret = 0
             /\ _yaml_cache[last.arg] = 0
    /\ (Maintained /\ NoSeparator(last.before))
          => /\ last.status \in {"ValueError", "sysexit"}
             /\ (Len(splitlines(last.before)) > 4
                    /\ StartsWith(splitlines(last.before)[5], ToolPrefix))
                   => last.status = "ValueError"
             /\ pkg[last.arg].bytes = last.before
             /\ LastEvents("write") = <<>>
             /\ LastEvents("info") = <<>>

C14_Witness ==
    /\ last.op = "parsePackageYaml"
    /\ pkg[last.arg].found
    /\ NoSeparator(pkg[last.arg].bytes)
    /\ last.status = "ValueError"
    /\ \E i \in DOMAIN log : log[i].ev = "_calculateYamlFileChecksum"

\* the lines between the first "---" line of the content and the next one,
\* whether a second "---" line closes them and, when none does, whether the
\* content ends with a line end
BodyOf(data) ==
    LET lines == splitlines(data)
        seps == {i \in DOMAIN lines : lines[i] = <<"---">>}
        first == CHOOSE i \in seps : \A j \in seps : i <= j
        later == {i \in seps : i > first}
        second == IF later = {} THEN Len(lines) + 1
                  ELSE CHOOSE i \in later : \A j \in later : i <= j
    IN  [lines |-> SubSeq(lines, first + 1, second - 1),
         closed |-> later # {},
         final |-> later = {} /\ data[Len(data)] = "\n"]

HasBody(data) == \E i \in DOMAIN splitlines(data) : splitlines(data)[i] = <<"---">>

\* the digests computed so far
Computed == SelectSeq(log, LAMBDA e : e.ev = "_calculateYamlFileChecksum")

\* C11: two contents that hold the separator and have the same body between
\* their first two "---" lines get the same digest, whatever their header
\* lines and whatever follows the second "---" line, a content whose first
\* "---" line is line 0 included.
C11_DigestCoversBody ==
    \A i \in DOMAIN Computed, j \in DOMAIN Computed :
        LET a == Computed[i].what
            b == Computed[j].what
        IN  (/\ ~NoSeparator(a.data)
             /\ ~NoSeparator(b.data)
             /\ HasBody(a.data)
             /\ HasBody(b.data)
             /\ BodyOf(a.data) = BodyOf(b.data))
                => /\ a.status = "ok"
                   /\ b.status = "ok"
                   /\ a.value = b.value

\* the first "---" line is not line 0, the body is not empty and a second
\* "---" line, if any, ends with a line end
PlainBody(data) ==
    /\ ~StartsWith(data, <<"---">>)
    /\ BodyOf(data).lines # <<>>
    /\ BodyOf(data).closed
          <=> Find(data, Separator, Find(data, Separator, 1) + Len(Separator)) # 0

\* not a claim: C11 for such contents
C11_ForPlainBodies ==
    (\A i \in DOMAIN Computed : HasBody(Computed[i].what.data)
                                   => PlainBody(Computed[i].what.data))
        => C11_DigestCoversBody

\* the latest call found the singleton None and set out to build it
Building == last.op = "getYamlPackageConfiguration" /\ last.pre = 0

\* the merges of the latest call
Updates == SelectSeq(last.events, LAMBDA e : e.ev = "update")

\* the sources merged into the standard document, in the order of the code
MergeOrder ==
    <<Stdlib2Key[2], Stdlib3Key[2]>>
        \o (IF pkg[CommercialKey].found THEN <<CommercialKey[2]>> ELSE <<>>)
        \o [i \in DOMAIN user |-> user[i].name]

\* the mandatory sources were merged, so the commercial one is tried
CommercialReached ==
    \E i \in DOMAIN Updates : Updates[i].src = Stdlib3Key[2] /\ Updates[i].what = "ok"

MandatoryNames ==
    UNION {Range(SourceNames(pkg[key])) : key \in {StandardKey, Stdlib2Key, Stdlib3Key}}

Entries(records) ==
    [i \in DOMAIN records |->
        [k |-> NameOf(records[i]),
         v |-> SelectSeq(records[i], LAMBDA p : p.k # "module-name")]]

\* the j-th record passes every check, the earlier ones having passed
Passes(records, j) ==
    /\ HasName(records[j])
    /\ WellFormed(NameOf(records[j]))
    /\ \A h \in 1..(j - 1) :
          HasName(records[h]) => NameOf(records[h]) # NameOf(records[j])

\* the errors of the earliest rule that the record breaks, the rules taken
\* in the order presence, path separator, identifier syntax, duplicate
EarliestRule(records, j) ==
    IF ~HasName(records[j]) \/ NameOf(records[j]) = <<>>
    THEN {"module-name", "empty module name"}
    ELSE IF "/" \in Range(NameOf(records[j]))
    THEN {"looks like a file path"}
    ELSE IF ~checkModuleName(NameOf(records[j]))
    THEN {"not valid"}
    ELSE {"Duplicate module-name"}

\* C15: a construction succeeds when every record passes; otherwise it stops
\* at the first record that breaks a rule, with the error of the earliest
\* rule that record breaks, returns no document and has looked at no later
\* record.
C15_FirstViolationStops ==
    Constructed =>
        LET records == LastYaml.value
            bad == {j \in DOMAIN records : ~Passes(records, j)}
            first == CHOOSE j \in bad : \A h \in bad : j <= h
        IN  IF bad = {}
            THEN last.status = "ok"
            ELSE /\ last.status \in {"sysexit", "KeyError"}
                 /\ last.err \in EarliestRule(records, first)
                 /\ last.ret = 0
                 /\ PackageConfigYaml("", LastYaml).done = first
                 /\ Len(PackageConfigYaml("", LastYaml).data) = first - 1

C15_Witness ==
    /\ Constructed
    /\ Len(LastYaml.value) = 2
    /\ \A i \in 1..2 : HasName(LastYaml.value[i])
                          /\ NameOf(LastYaml.value[i]) = <<"a", "/", "b">>
    /\ last.err = "looks like a file path"

\* the sources of the aggregate, in merge order
AggregateSources ==
    <<pkg[StandardKey], pkg[Stdlib2Key], pkg[Stdlib3Key]>>
        \o (IF pkg[CommercialKey].found THEN <<pkg[CommercialKey]>> ELSE <<>>)
        \o user

RECURSIVE AllEntries(_)
AllEntries(sources) ==
    IF sources = <<>> THEN <<>>
    ELSE Entries(Head(sources).yaml.value) \o AllEntries(Tail(sources))

\* C17: a constructed document has the entries of its record list, in the
\* order of the records, each the record without its module-name key; the
\* aggregate a building call returns has the entries of its sources in merge
\* order.
C17_EntriesInOrder ==
    /\ (Constructed /\ last.status = "ok")
          => heap[last.ret].data = Entries(LastYaml.value)
    /\ (Building /\ last.status = "ok")
          => heap[last.ret].data = AllEntries(AggregateSources)

C17_Witness ==
    /\ Building
    /\ last.status = "ok"
    /\ Len(heap[last.ret].data) = 5
    /\ heap[last.ret].data[1] = [k |-> <<"b">>, v |-> Sections]

\* the resource of the key is found, its checksum is classified, it parses
\* to a record list and every record passes the checks
Loadable(key) ==
    /\ pkg[key].found
    /\ Validated(pkg[key].bytes).status = "ok"
    /\ pkg[key].yaml.type = "list"
    /\ \A j \in DOMAIN pkg[key].yaml.value : Passes(pkg[key].yaml.value, j)

\* every cached document comes from a loadable resource and has well formed,
\* distinct keys
C19_CachedArePassed ==
    \A key \in PackageKeys :
        _yaml_cache[key] # 0 =>
            /\ Loadable(key)
            /\ _yaml_cache[key] \in DOMAIN heap
            /\ \A i \in DOMAIN heap[_yaml_cache[key]].data :
                   /\ WellFormed(heap[_yaml_cache[key]].data[i].k)
                   /\ \A j \in DOMAIN heap[_yaml_cache[key]].data :
                          heap[_yaml_cache[key]].data[i].k = heap[_yaml_cache[key]].data[j].k
                              => i = j

\* C19: a call of parsePackageYaml that fails leaves the cache and the cached
\* documents as they were, and a resource that cannot be loaded is never in
\* the cache.
C19_FailedLoadKeepsCache ==
    /\ []C19_CachedArePassed
    /\ [][(last'.op = "parsePackageYaml" /\ last'.status # "ok")
             => (_yaml_cache' = _yaml_cache /\ heap' = heap)]_vars

C19_Witness ==
    /\ last.op = "parsePackageYaml"
    /\ last.status = "ParseError"
    /\ _yaml_cache[last.arg] = 0
    /\ \E key \in PackageKeys : _yaml_cache[key] # 0

====
